---- MODULE Spec2Model ----
(***************************************************************************)
(* Model of mcp_server.py: the TTL cache SimpleCache, the module-level     *)
(* instance data_cache (ttl_seconds = 5) and the /ticker handler           *)
(* get_ticker, which runs as a coroutine whose only suspension point is    *)
(* the await of EXCHANGE.fetch_ticker.                                     *)
(*                                                                         *)
(* Strings that the code only compares are TLA+ strings.  Strings that the *)
(* code searches or builds (exception messages, HTTP details) are          *)
(* sequences of words, so that "pattern in text" is a contiguous           *)
(* sub-sequence test.  time.time() reads the variable now.                 *)
(***************************************************************************)
EXTENDS Integers, Sequences, FiniteSets, TLC

VARIABLES
    data_cache,   \* SimpleCache._cache of data_cache: key -> [data, timestamp]
    now,          \* the value time.time() returns
    req,          \* the handler coroutines: position and arguments
    resp,         \* the response sent last, and the symbol it answers
    fetch_count,  \* calls made to EXCHANGE.fetch_ticker (the mock's call_count)
    ohlcv_count,  \* calls made to EXCHANGE.fetch_ohlcv
    printed,      \* the lines the last SimpleCache call printed
    hist,         \* the last two direct SimpleCache calls / clock advances
    everSet,      \* keys that have been an argument of SimpleCache.set
    log           \* responses seen by the sequential test client

vars == <<data_cache, now, req, resp, fetch_count, ohlcv_count, printed, hist,
         everSet, log>>

----------------------------------------------------------------------------
(* Bounds *)

MaxTime == 107      \* the clock stops advancing here
MaxFetch == 2       \* upstream calls made in one behaviour
NumReqs == 2        \* coroutines that can be in flight together
MaxLog == 4         \* requests issued by the sequential client
MaxBars == 2        \* bars in one answer of fetch_ohlcv

(* Program constants *)

T0 == 100           \* first reading of the clock (the test's mocked time)
ttl_six == 5 + 1     \* variant: a TTL of 6 seconds
TTL == 5            \* data_cache = SimpleCache(ttl_seconds=5)

----------------------------------------------------------------------------
(* Values *)

None == [none |-> TRUE]

Symbols == {"ETH/USDT", "eth/usdt", "XYZ/ABC"}

\* str.upper() on the symbols of the model
upper(s) == IF s = "eth/usdt" THEN "ETH/USDT" ELSE s

\* str.lower() on one word
lower_word(w) ==
    CASE w = "The" -> "the"
      [] w = "ETH/USDT" -> "eth/usdt"
      [] w = "XYZ/ABC" -> "xyz/abc"
      [] w = "TickerResponse" -> "tickerresponse"
      [] OTHER -> w

\* str.lower() on a text
lower(text) == [i \in 1..Len(text) |-> lower_word(text[i])]

\* pat in text
contains(text, pat) ==
    \E i \in 0..(Len(text) - Len(pat)) :
        SubSeq(text, i + 1, i + Len(pat)) = pat

\* f"ticker:{symbol}"
cache_key(symbol) == <<"ticker:", symbol>>

----------------------------------------------------------------------------
(* SimpleCache *)

\* variants: the age taken in milliseconds; the boundary counted as expired
is_expired_millis(timestamp, t) == (t - timestamp) * 1000 > TTL
is_expired_inclusive(timestamp, t) == (t - timestamp) >= TTL
is_expired(timestamp, t) == (t - timestamp) > TTL

\* the value SimpleCache.get returns (variant: the data of an entry is
\* returned whatever its age)
get_ret_stale(c, t, key) ==
    IF key \in DOMAIN c THEN c[key].data ELSE None
get_ret(c, t, key) ==
    IF key \in DOMAIN c /\ ~is_expired(c[key].timestamp, t)
    THEN c[key].data
    ELSE None

\* the lines SimpleCache.get prints
line(text, key) == [text |-> text, key |-> key]
get_prints(c, t, key) ==
    IF key \in DOMAIN c
    THEN IF ~is_expired(c[key].timestamp, t)
         THEN <<line("Cache hit for key:", key)>>
         ELSE <<line("Cache expired for key:", key),
                line("Cache miss for key:", key)>>
    ELSE <<line("Cache miss for key:", key)>>

\* the map SimpleCache.get leaves behind (variants: the expired entry is
\* kept; a hit renews the timestamp; a miss inserts the key)
get_no_delete(c, t, key) == c
get_touch(c, t, key) ==
    IF key \in DOMAIN c
    THEN IF ~is_expired(c[key].timestamp, t)
         THEN [c EXCEPT ![key].timestamp = t]
         ELSE [k \in DOMAIN c \ {key} |-> c[k]]
    ELSE c
get_defaultdict(c, t, key) ==
    IF key \in DOMAIN c
    THEN IF is_expired(c[key].timestamp, t)
         THEN [k \in DOMAIN c \ {key} |-> c[k]]
         ELSE c
    ELSE [k \in DOMAIN c \cup {key} |->
            IF k = key THEN [data |-> None, timestamp |-> t] ELSE c[k]]
get_cache(c, t, key) ==
    IF key \in DOMAIN c /\ is_expired(c[key].timestamp, t)
    THEN [k \in DOMAIN c \ {key} |-> c[k]]
    ELSE c

\* the line SimpleCache.set prints
set_prints(key) == <<line("Cache set for key:", key)>>

\* the map SimpleCache.set leaves behind (variants: an overwrite keeps the
\* old timestamp; an existing entry is kept; the expired entries of the
\* other keys are swept)
set_sweep(c, t, key, data) ==
    [k \in {key} \cup {j \in DOMAIN c : ~is_expired(c[j].timestamp, t)} |->
        IF k = key THEN [data |-> data, timestamp |-> t] ELSE c[k]]
set_keep_timestamp(c, t, key, data) ==
    [k \in DOMAIN c \cup {key} |->
        IF k = key
        THEN [data |-> data,
              timestamp |-> IF key \in DOMAIN c THEN c[key].timestamp ELSE t]
        ELSE c[k]]
set_setdefault(c, t, key, data) ==
    IF key \in DOMAIN c THEN c
    ELSE [k \in DOMAIN c \cup {key} |->
            IF k = key THEN [data |-> data, timestamp |-> t] ELSE c[k]]
set_cache(c, t, key, data) ==
    [k \in DOMAIN c \cup {key} |->
        IF k = key THEN [data |-> data, timestamp |-> t] ELSE c[k]]

----------------------------------------------------------------------------
(* Ticker payloads and TickerResponse *)

Prices == <<60000, 70000>>      \* 'last' of the first and the second fetch
NoneNum == 0 - 1                \* a numeric field that holds Python's None

\* what fetch_ticker returns for symbol arg with last price p
ticker_payload(arg, p) ==
    [symbol |-> arg, last |-> p, bid |-> 64999, ask |-> 65001,
     timestamp |-> 1678886400, info |-> "raw"]

\* the same payload without the 'bid' key, and with bid = None
payload_no_bid(arg, p) ==
    [symbol |-> arg, last |-> p, ask |-> 65001,
     timestamp |-> 1678886400, info |-> "raw"]
payload_none_bid(arg, p) == [ticker_payload(arg, p) EXCEPT !.bid = NoneNum]

TickerFields == <<"symbol", "last", "bid", "ask", "timestamp", "info">>

\* TickerResponse(symbol=ticker['symbol'], ...): the record, or the exception
\* raised by a missing key (KeyError) or a field of the wrong type
\* (pydantic's ValidationError); the variant accepts any payload
to_response_lenient(ticker) ==
    [ok |-> TRUE,
     data |-> [f \in {"symbol", "last", "bid", "ask", "timestamp", "info"} |->
                 IF f \in DOMAIN ticker THEN ticker[f]
                 ELSE IF f \in {"symbol", "info"} THEN "" ELSE NoneNum]]
to_response(ticker) ==
    LET missing == {i \in 1..Len(TickerFields) : TickerFields[i] \notin DOMAIN ticker}
        first == CHOOSE i \in missing : \A j \in missing : i <= j
    IN  IF missing # {}
        THEN [ok |-> FALSE,
              exc |-> [cls |-> "KeyError", msg |-> <<TickerFields[first]>>]]
        ELSE IF \E f \in {"last", "bid", "ask", "timestamp"} : ticker[f] = NoneNum
        THEN [ok |-> FALSE,
              exc |-> [cls |-> "ValidationError",
                       msg |-> <<"validation", "error", "for", "TickerResponse">>]]
        ELSE [ok |-> TRUE,
              data |-> [symbol |-> ticker.symbol, last |-> ticker.last,
                        bid |-> ticker.bid, ask |-> ticker.ask,
                        timestamp |-> ticker.timestamp, info |-> ticker.info]]

\* the values the direct cache calls store
Values == {to_response(ticker_payload("ETH/USDT", Prices[i])).data : i \in 1..2}

----------------------------------------------------------------------------
(* State *)

Reqs == 1..NumReqs

Idle == [pc |-> "idle", symbol |-> ""]

NoResp == [symbol |-> "", status |-> 0]

NoOp == [op |-> "none", key |-> <<>>, val |-> None, ret |-> None]

Init ==
    /\ data_cache = <<>>
    /\ now = T0
    /\ req = [r \in Reqs |-> Idle]
    /\ resp = NoResp
    /\ fetch_count = 0
    /\ ohlcv_count = 0
    /\ printed = <<>>
    /\ hist = <<NoOp, NoOp>>
    /\ everSet = {}
    /\ log = <<>>

\* time.time() never decreases; it advances between any two steps
advance ==
    /\ now < MaxTime
    /\ now' = now + 1

Tick ==
    /\ advance
    /\ UNCHANGED <<data_cache, req, resp, fetch_count, printed, hist, everSet,
                   log, ohlcv_count>>

----------------------------------------------------------------------------
(* Direct calls of the cache: data_cache.get(key), data_cache.set(key, data) *)

CacheGet(key) ==
    /\ data_cache' = get_cache(data_cache, now, key)
    /\ printed' = get_prints(data_cache, now, key)
    /\ hist' = <<hist[2], [op |-> "get", key |-> key, val |-> None,
                           ret |-> get_ret(data_cache, now, key)]>>
    /\ UNCHANGED <<now, req, resp, fetch_count, everSet, log, ohlcv_count>>

CacheSet(key, data) ==
    /\ data_cache' = set_cache(data_cache, now, key, data)
    /\ printed' = set_prints(key)
    /\ everSet' = everSet \cup {key}
    /\ hist' = <<hist[2], [op |-> "set", key |-> key, val |-> data, ret |-> None]>>
    /\ UNCHANGED <<now, req, resp, fetch_count, log, ohlcv_count>>

CacheTick ==
    /\ advance
    /\ hist' = <<hist[2], [NoOp EXCEPT !.op = "tick"]>>
    /\ UNCHANGED <<data_cache, req, resp, fetch_count, printed, everSet, log,
                   ohlcv_count>>

CacheKeys == {cache_key("ETH/USDT"), cache_key("XYZ/ABC")}

NextCache ==
    \/ CacheTick
    \/ \E key \in CacheKeys : CacheGet(key)
    \/ \E key \in CacheKeys, data \in Values : CacheSet(key, data)

SpecCache == Init /\ [][NextCache]_vars

----------------------------------------------------------------------------
(* The upstream client EXCHANGE.fetch_ticker *)

\* ccxt's exception classes: BadSymbol < BadRequest < ExchangeError < BaseError,
\* NetworkError < BaseError; the others are Python's own
is_ExchangeError(cls) == cls \in {"ExchangeError", "BadRequest", "BadSymbol"}

BadSymbol(arg) ==
    [cls |-> "BadSymbol",
     msg |-> <<"The", "symbol", arg, "is", "not", "supported">>]
RateLimit ==
    [cls |-> "ExchangeError", msg |-> <<"rate", "limit", "exceeded">>]
TimedOut ==
    [cls |-> "NetworkError", msg |-> <<"connection", "timed", "out">>]
NoMarket ==
    [cls |-> "Exception", msg |-> <<"market", "does", "not", "exist">>]
MockExhausted ==
    [cls |-> "StopAsyncIteration", msg |-> <<>>]

returns(ticker) == [ok |-> TRUE, ticker |-> ticker]
raises(exc) == [ok |-> FALSE, exc |-> exc]

\* the symbols the exchange trades
Markets == {"ETH/USDT"}

\* what one call fetch_ticker(arg) can end with: an exception, or for a
\* market of the exchange a payload, complete or not
Errors(arg) ==
    {raises(BadSymbol(arg)), raises(RateLimit), raises(TimedOut),
     raises(NoMarket)}
Outcomes(arg) ==
    IF arg \in Markets
    THEN {returns(ticker_payload(arg, Prices[i])) : i \in 1..Len(Prices)}
         \cup {returns(payload_no_bid(arg, Prices[1])),
               returns(payload_none_bid(arg, Prices[1]))}
         \cup Errors(arg)
    ELSE Errors(arg)

\* AsyncMock(side_effect=[v1, v2]): the n-th call returns the n-th payload
mock_fetch(arg, n) ==
    IF n <= Len(Prices) THEN returns(ticker_payload(arg, Prices[n]))
    ELSE raises(MockExhausted)

----------------------------------------------------------------------------
(* get_ticker *)

EXCHANGE_ID == "binance"

\* if cached_data:
truthy(x) == x # None

\* the except clauses of get_ticker: the HTTPException raised for exc
http_error(symbol, exc) ==
    IF is_ExchangeError(exc.cls)
    THEN [status |-> 500,
          detail |-> <<"Exchange", "error", "while", "fetching", "ticker",
                       "for", symbol, ":">> \o exc.msg]
    ELSE IF \/ contains(lower(exc.msg), <<"symbol", "is", "not", "supported">>)
            \/ contains(lower(exc.msg), <<"does", "not", "exist">>)
    THEN [status |-> 404,
          detail |-> <<"Symbol", symbol, "not", "found", "on", EXCHANGE_ID>>]
    ELSE [status |-> 500,
          detail |-> <<"An", "unexpected", "error", "occurred", ":">> \o exc.msg]

\* lines 94-102: from the call to the await of fetch_ticker (or the return
\* of the cached record); stale tells whether the lookup of the waiting
\* request found an expired entry, which it deleted; the variant joins the call another request is
\* waiting for with the same symbol
ticker_start_coalesced(r, symbol) ==
    LET key == cache_key(symbol)
        cached_data == get_ret(data_cache, now, key)
    IN  /\ req[r].pc = "idle"
        /\ data_cache' = get_cache(data_cache, now, key)
        /\ printed' = get_prints(data_cache, now, key)
        /\ IF truthy(cached_data)
           THEN /\ resp' = [symbol |-> symbol, status |-> 200,
                            body |-> cached_data]
                /\ UNCHANGED <<req, fetch_count>>
           ELSE /\ fetch_count' =
                      IF \E q \in Reqs : /\ req[q].pc = "awaiting"
                                         /\ req[q].symbol = symbol
                      THEN fetch_count ELSE fetch_count + 1
                /\ req' = [req EXCEPT ![r] =
                             [pc |-> "awaiting", symbol |-> symbol,
                              stale |-> key \in DOMAIN data_cache]]
                /\ UNCHANGED resp
ticker_start(r, symbol) ==
    LET key == cache_key(symbol)
        cached_data == get_ret(data_cache, now, key)
    IN  /\ req[r].pc = "idle"
        /\ data_cache' = get_cache(data_cache, now, key)
        /\ printed' = get_prints(data_cache, now, key)
        /\ IF truthy(cached_data)
           THEN /\ resp' = [symbol |-> symbol, status |-> 200,
                            body |-> cached_data]
                /\ UNCHANGED <<req, fetch_count>>
           ELSE /\ fetch_count' = fetch_count + 1
                /\ req' = [req EXCEPT ![r] =
                             [pc |-> "awaiting", symbol |-> symbol,
                              stale |-> key \in DOMAIN data_cache]]
                /\ UNCHANGED resp

\* lines 102-126: from the end of the await to the response; the variant
\* reads the symbol from a variable that all requests share, which holds
\* the symbol of the request answered last
ticker_resume_shared(r, outcome) ==
    LET symbol == resp.symbol
        key == cache_key(symbol)
        mapped == IF outcome.ok THEN to_response(outcome.ticker) ELSE outcome
    IN  /\ req[r].pc = "awaiting"
        /\ req' = [req EXCEPT ![r] = Idle]
        /\ IF mapped.ok
           THEN /\ data_cache' = set_cache(data_cache, now, key, mapped.data)
                /\ printed' = set_prints(key)
                /\ everSet' = everSet \cup {key}
                /\ resp' = [symbol |-> symbol, status |-> 200,
                            body |-> mapped.data]
           ELSE /\ resp' = [symbol |-> symbol]
                               @@ http_error(symbol, mapped.exc)
                /\ UNCHANGED <<data_cache, printed, everSet>>
ticker_resume(r, outcome) ==
    LET symbol == req[r].symbol
        key == cache_key(symbol)
        mapped == IF outcome.ok THEN to_response(outcome.ticker) ELSE outcome
    IN  /\ req[r].pc = "awaiting"
        /\ req' = [req EXCEPT ![r] = Idle]
        /\ IF mapped.ok
           THEN /\ data_cache' = set_cache(data_cache, now, key, mapped.data)
                /\ printed' = set_prints(key)
                /\ everSet' = everSet \cup {key}
                /\ resp' = [symbol |-> symbol, status |-> 200,
                            body |-> mapped.data]
           ELSE /\ resp' = [symbol |-> symbol]
                               @@ http_error(symbol, mapped.exc)
                /\ UNCHANGED <<data_cache, printed, everSet>>

get_ticker_start(r, symbol) ==
    /\ ticker_start(r, symbol)
    /\ UNCHANGED <<now, hist, everSet, log, ohlcv_count>>

get_ticker_resume(r) ==
    /\ req[r].pc = "awaiting"
    /\ \E outcome \in Outcomes(upper(req[r].symbol)) : ticker_resume(r, outcome)
    /\ UNCHANGED <<now, fetch_count, hist, log, ohlcv_count>>

----------------------------------------------------------------------------
(* test_get_ticker_caching_and_expiry: one client that sends GET             *)
(* /ticker/ETH/USDT, waits for the response and sends the next; fetch_ticker *)
(* is AsyncMock(side_effect=[v1, v2]).  log has one entry per request: the   *)
(* time it arrived, the status and 'last' of its response, call_count after  *)
(* it, and the cache entry of its key after it.                              *)

TestSymbol == "ETH/USDT"

pending == [at |-> now, status |-> 0, last |-> 0, calls |-> 0,
            stored |-> 0 - 1, cached |-> 0]

answered(at) ==
    LET key == cache_key(TestSymbol)
        present == key \in DOMAIN data_cache'
    IN  [at |-> at,
         status |-> resp'.status,
         last |-> IF resp'.status = 200 THEN resp'.body.last ELSE 0,
         calls |-> fetch_count',
         stored |-> IF present THEN data_cache'[key].timestamp ELSE 0 - 1,
         cached |-> IF present THEN data_cache'[key].data.last ELSE 0]

ClientRequest ==
    /\ Len(log) < MaxLog
    /\ ticker_start(1, TestSymbol)
    /\ fetch_count' <= MaxFetch
    /\ log' = Append(log, IF req'[1].pc = "idle" THEN answered(now) ELSE pending)
    /\ UNCHANGED <<now, hist, everSet, ohlcv_count>>

ClientResponse ==
    /\ req[1].pc = "awaiting"
    /\ ticker_resume(1, mock_fetch(upper(req[1].symbol), fetch_count))
    /\ UNCHANGED <<now, fetch_count, hist, ohlcv_count>>
    /\ log' = [log EXCEPT ![Len(log)] = answered(log[Len(log)].at)]

NextTest ==
    \/ Tick
    \/ ClientRequest
    \/ ClientResponse

SpecTest == Init /\ [][NextTest]_vars

----------------------------------------------------------------------------
Next ==
    \/ Tick
    \/ \E r \in Reqs, symbol \in Symbols :
          /\ get_ticker_start(r, symbol)
          /\ fetch_count' <= MaxFetch
    \/ \E r \in Reqs : get_ticker_resume(r)

Spec == Init /\ [][Next]_vars

----------------------------------------------------------------------------
(* The upstream client EXCHANGE.fetch_ohlcv *)

\* MOCK_OHLCV_DATA: [timestamp, open, high, low, close, volume], the
\* timestamp in seconds and the volume in tenths
Bar1 == <<1678886400, 60000, 60500, 59900, 60400, 105>>
Bar2 == <<1678890000, 60400, 60700, 60300, 60650, 82>>

\* a bar with its volume missing, and a bar whose volume is None
ShortBar == <<1678886400, 60000, 60500, 59900, 60400>>
NoneBar == <<1678886400, 60000, 60500, 59900, 60400, NoneNum>>

\* the answers of well-formed bars: every order, repetitions included
BarSeqs ==
    UNION {[1..n -> {Bar1, Bar2}] : n \in 0..MaxBars}

returns_bars(bars) == [ok |-> TRUE, bars |-> bars]

\* what one call fetch_ohlcv(arg, timeframe, limit) can end with
OhlcvOutcomes(arg) ==
    IF arg \in Markets
    THEN {returns_bars(bars) : bars \in BarSeqs}
         \cup {returns_bars(<<Bar1, ShortBar>>), returns_bars(<<NoneBar>>)}
         \cup Errors(arg)
    ELSE Errors(arg)

----------------------------------------------------------------------------
(* get_ohlcv *)

Timeframes == {"1m", "5m", "15m", "1h", "4h", "1d"}

MaxLimit == 1000

\* lines 139-143: the HTTPException of a request that is not valid, or None
ohlcv_no_limit_check(timeframe, limit) ==
    IF timeframe \notin Timeframes
    THEN [status |-> 400,
          detail |-> <<"Invalid", "timeframe.", "Supported:", "1m,", "5m,",
                       "15m,", "1h,", "4h,", "1d.">>]
    ELSE None
ohlcv_invalid(timeframe, limit) ==
    IF limit > MaxLimit
    THEN [status |-> 400,
          detail |-> <<"Limit", "must", "not", "exceed", "1000", "for",
                       "performance.">>]
    ELSE IF timeframe \notin Timeframes
    THEN [status |-> 400,
          detail |-> <<"Invalid", "timeframe.", "Supported:", "1m,", "5m,",
                       "15m,", "1h,", "4h,", "1d.">>]
    ELSE None

\* lines 154-164: the OHLCVData records, or the exception raised by the
\* first bar that is too short (IndexError) or holds None (pydantic's
\* ValidationError); the variant returns the bars oldest first
to_ohlcv_sorted(bars) ==
    IF \E i \in 1..Len(bars) : Len(bars[i]) < 6
    THEN [ok |-> FALSE,
          exc |-> [cls |-> "IndexError",
                   msg |-> <<"list", "index", "out", "of", "range">>]]
    ELSE [ok |-> TRUE,
          data |-> [i \in 1..Len(bars) |->
                      LET bar == IF Len(bars) = 2 /\ bars[1][1] > bars[2][1]
                                 THEN bars[3 - i] ELSE bars[i]
                      IN  [timestamp |-> bar[1], open |-> bar[2],
                           high |-> bar[3], low |-> bar[4],
                           close |-> bar[5], volume |-> bar[6]]]]
to_ohlcv(bars) ==
    LET bad == {i \in 1..Len(bars) :
                  \/ Len(bars[i]) < 6
                  \/ \E j \in 1..Len(bars[i]) : bars[i][j] = NoneNum}
        first == CHOOSE i \in bad : \A j \in bad : i <= j
    IN  IF bad # {} /\ Len(bars[first]) < 6
        THEN [ok |-> FALSE,
              exc |-> [cls |-> "IndexError",
                       msg |-> <<"list", "index", "out", "of", "range">>]]
        ELSE IF bad # {}
        THEN [ok |-> FALSE,
              exc |-> [cls |-> "ValidationError",
                       msg |-> <<"validation", "error", "for", "OHLCVData">>]]
        ELSE [ok |-> TRUE,
              data |-> [i \in 1..Len(bars) |->
                          [timestamp |-> bars[i][1], open |-> bars[i][2],
                           high |-> bars[i][3], low |-> bars[i][4],
                           close |-> bars[i][5], volume |-> bars[i][6]]]]

\* the except clauses of get_ohlcv: the HTTPException raised for exc; the
\* variant has the one clause except Exception
http_error_ohlcv_generic(symbol, exc) ==
    IF \/ contains(lower(exc.msg), <<"symbol", "is", "not", "supported">>)
       \/ contains(lower(exc.msg), <<"does", "not", "exist">>)
    THEN [status |-> 404,
          detail |-> <<"Symbol", symbol, "not", "found", "on", EXCHANGE_ID>>]
    ELSE [status |-> 500, detail |-> <<"Internal", "Server", "Error">>]
http_error_ohlcv(symbol, exc) ==
    IF is_ExchangeError(exc.cls)
    THEN [status |-> 500,
          detail |-> <<"Exchange", "error", "while", "fetching", "OHLCV",
                       "for", symbol, ":">> \o exc.msg]
    ELSE IF \/ contains(lower(exc.msg), <<"symbol", "is", "not", "supported">>)
            \/ contains(lower(exc.msg), <<"does", "not", "exist">>)
    THEN [status |-> 404,
          detail |-> <<"Symbol", symbol, "not", "found", "on", EXCHANGE_ID>>]
    ELSE [status |-> 500,
          detail |-> <<"An", "unexpected", "error", "occurred", ":">> \o exc.msg]

\* lines 139-151: from the call to the await of fetch_ohlcv (or the 400);
\* the variant looks the symbol up in data_cache first
ohlcv_start_cached(r, symbol, timeframe, limit) ==
    LET invalid == ohlcv_invalid(timeframe, limit)
        key == cache_key(symbol)
        cached_data == get_ret(data_cache, now, key)
    IN  /\ req[r].pc = "idle"
        /\ data_cache' = get_cache(data_cache, now, key)
        /\ printed' = get_prints(data_cache, now, key)
        /\ UNCHANGED everSet
        /\ IF invalid # None
           THEN /\ resp' = [symbol |-> symbol] @@ invalid
                /\ UNCHANGED <<req, ohlcv_count>>
           ELSE IF truthy(cached_data)
           THEN /\ resp' = [symbol |-> symbol, status |-> 200,
                            body |-> cached_data]
                /\ UNCHANGED <<req, ohlcv_count>>
           ELSE /\ ohlcv_count < MaxFetch
                /\ ohlcv_count' = ohlcv_count + 1
                /\ req' = [req EXCEPT ![r] =
                             [pc |-> "awaiting_ohlcv", symbol |-> symbol,
                              timeframe |-> timeframe, limit |-> limit]]
                /\ UNCHANGED resp
ohlcv_start(r, symbol, timeframe, limit) ==
    LET invalid == ohlcv_invalid(timeframe, limit)
    IN  /\ req[r].pc = "idle"
        /\ UNCHANGED <<data_cache, printed, everSet>>
        /\ IF invalid # None
           THEN /\ resp' = [symbol |-> symbol] @@ invalid
                /\ UNCHANGED <<req, ohlcv_count>>
           ELSE /\ ohlcv_count < MaxFetch
                /\ ohlcv_count' = ohlcv_count + 1
                /\ req' = [req EXCEPT ![r] =
                             [pc |-> "awaiting_ohlcv", symbol |-> symbol,
                              timeframe |-> timeframe, limit |-> limit]]
                /\ UNCHANGED resp

\* lines 147-181: from the end of the await to the response; the variant
\* calls fetch_ohlcv again when the call failed
ohlcv_resume_retry(r, outcome) ==
    LET symbol == req[r].symbol
        mapped == IF outcome.ok THEN to_ohlcv(outcome.bars) ELSE outcome
    IN  /\ req[r].pc = "awaiting_ohlcv"
        /\ UNCHANGED <<data_cache, printed, everSet>>
        /\ IF mapped.ok
           THEN /\ req' = [req EXCEPT ![r] = Idle]
                /\ resp' = [symbol |-> symbol, status |-> 200,
                            body |-> [symbol |-> upper(symbol),
                                      timeframe |-> req[r].timeframe,
                                      data |-> mapped.data]]
                /\ UNCHANGED ohlcv_count
           ELSE /\ ohlcv_count < MaxFetch
                /\ ohlcv_count' = ohlcv_count + 1
                /\ UNCHANGED <<req, resp>>
ohlcv_resume(r, outcome) ==
    LET symbol == req[r].symbol
        mapped == IF outcome.ok THEN to_ohlcv(outcome.bars) ELSE outcome
    IN  /\ req[r].pc = "awaiting_ohlcv"
        /\ UNCHANGED <<data_cache, printed, everSet, ohlcv_count>>
        /\ req' = [req EXCEPT ![r] = Idle]
        /\ resp' = IF mapped.ok
                   THEN [symbol |-> symbol, status |-> 200,
                         body |-> [symbol |-> upper(symbol),
                                   timeframe |-> req[r].timeframe,
                                   data |-> mapped.data]]
                   ELSE [symbol |-> symbol]
                            @@ http_error_ohlcv(symbol, mapped.exc)

get_ohlcv_start(r, symbol, timeframe, limit) ==
    /\ ohlcv_start(r, symbol, timeframe, limit)
    /\ UNCHANGED <<now, fetch_count, hist, log>>

get_ohlcv_resume(r, outcome) ==
    /\ ohlcv_resume(r, outcome)
    /\ UNCHANGED <<now, fetch_count, hist, log>>

\* one client that sends GET /ohlcv/..., waits for the response and sends
\* the next: every timeframe and one that is not supported; the default
\* limit, the ceiling and the values around it
RequestTimeframes == Timeframes \cup {"20min"}
RequestLimits == {0 - 1, 100, 999, 1000, 1001, 2000}

NextOhlcv ==
    \/ \E symbol \in Symbols, timeframe \in RequestTimeframes,
          limit \in RequestLimits : get_ohlcv_start(1, symbol, timeframe, limit)
    \/ \E outcome \in OhlcvOutcomes(upper(req[1].symbol)) :
          get_ohlcv_resume(1, outcome)

SpecOhlcv == Init /\ [][NextOhlcv]_vars

----------------------------------------------------------------------------
(* Both handlers under the event loop.  The clock is read at T0 and, after  *)
(* every entry stored so far has expired, at multiples of TTL + 1 after it; *)
(* the calls made to the exchange, of both kinds together, are bounded.     *)

LongTick ==
    /\ now + TTL + 1 <= MaxTime
    /\ now' = now + TTL + 1
    /\ UNCHANGED <<data_cache, req, resp, fetch_count, ohlcv_count, printed,
                   hist, everSet, log>>

\* what fetch_ohlcv does for the concurrent clients: the two bars newest
\* first, a bar without a volume, a bar that is too short, or an exception
ServerOutcomes(arg) ==
    IF arg \in Markets
    THEN {returns_bars(<<Bar2, Bar1>>), returns_bars(<<NoneBar>>),
          returns_bars(<<Bar1, ShortBar>>)} \cup Errors(arg)
    ELSE Errors(arg)

\* the requests of the concurrent clients: a symbol in lower case and
\* one the exchange does not list, a timeframe and a limit that pass and
\* ones that do not
ServerSymbols == {"eth/usdt", "XYZ/ABC"}
ServerTimeframes == {"1h", "20min"}
ServerLimits == {100, 1001}

NextServer ==
    \/ LongTick
    \/ \E r \in Reqs, symbol \in ServerSymbols :
          /\ get_ticker_start(r, symbol)
          /\ fetch_count' + ohlcv_count' <= MaxFetch + 1
    \/ \E r \in Reqs : get_ticker_resume(r)
    \/ \E r \in Reqs, symbol \in ServerSymbols,
          timeframe \in ServerTimeframes, limit \in ServerLimits :
          /\ get_ohlcv_start(r, symbol, timeframe, limit)
          /\ fetch_count' + ohlcv_count' <= MaxFetch + 1
    \/ \E r \in Reqs :
          \E outcome \in ServerOutcomes(upper(req[r].symbol)) :
              get_ohlcv_resume(r, outcome)

SpecServer == Init /\ [][NextServer]_vars

----------------------------------------------------------------------------
(* Properties *)

age(key) == now - data_cache[key].timestamp

stored(key) == key \in DOMAIN data_cache

is_hit(ls, key) == ls = <<line("Cache hit for key:", key)>>

is_expiry(ls, key) ==
    ls = <<line("Cache expired for key:", key), line("Cache miss for key:", key)>>

\* C1: a ticker request whose key holds an entry that is not expired is
\* answered 200 with the stored record, and the call count of fetch_ticker is
\* the same after it as before (no coroutine starts to wait either).
C1_HitSkipsFetch ==
    [][\A r \in Reqs, symbol \in Symbols :
        (/\ get_ticker_start(r, symbol)
         /\ stored(cache_key(symbol))
         /\ age(cache_key(symbol)) <= TTL)
        => /\ resp' = [symbol |-> symbol, status |-> 200,
                       body |-> data_cache[cache_key(symbol)].data]
           /\ fetch_count' = fetch_count
           /\ req' = req]_vars

\* a request was just served from an entry stored at an earlier time
C1_Witness ==
    /\ resp.status = 200
    /\ is_hit(printed, cache_key(resp.symbol))
    /\ stored(cache_key(resp.symbol))
    /\ age(cache_key(resp.symbol)) > 0
    /\ resp.body = data_cache[cache_key(resp.symbol)].data
    /\ fetch_count = 1

\* C2: with TTL = 5, for the requests of one client for one symbol: a
\* request that arrives more than 5 seconds after the entry was stored makes
\* exactly one more upstream call, and when that call succeeds it is answered
\* with the newly fetched record, which is then the cache entry, stored no
\* earlier than the request arrived; a request that arrives at most 5 seconds
\* after the entry was stored is answered with the stored record without a
\* further call.  In particular: stored at 100, requests at 101, 106 and 107
\* give v1 with 1 call, v2 with 2 calls, v2 with 2 calls.
C2_ExpiryRefetches ==
    /\ \A i \in 2..Len(log) :
        LET p == log[i - 1]
            c == log[i]
        IN  (p.status = 200 /\ c.status # 0) =>
              IF c.at - p.stored > 5
              THEN /\ c.calls = p.calls + 1
                   /\ c.status = 200 =>
                        /\ c.last = Prices[c.calls]
                        /\ c.cached = c.last
                        /\ c.stored >= c.at
              ELSE /\ c.calls = p.calls
                   /\ c.status = 200
                   /\ c.last = p.last
                   /\ c.cached = p.cached
                   /\ c.stored = p.stored
    /\ (/\ Len(log) = 4
        /\ log[4].status # 0
        /\ log[1].stored = 100
        /\ <<log[2].at, log[3].at, log[4].at>> = <<101, 106, 107>>)
       => /\ <<log[1].last, log[1].calls>> = <<60000, 1>>
          /\ <<log[2].last, log[2].calls>> = <<60000, 1>>
          /\ <<log[3].last, log[3].calls>> = <<70000, 2>>
          /\ <<log[4].last, log[4].calls>> = <<70000, 2>>

\* the run of the test: stored at 100, requests at 101, 106, 107 answered
C2_Witness ==
    /\ Len(log) = 4
    /\ log[1].stored = 100
    /\ <<log[2].at, log[3].at, log[4].at>> = <<101, 106, 107>>
    /\ \A i \in 1..4 : log[i].status = 200
    /\ log[4].last = 70000
    /\ fetch_count = 2

\* C3: for a key with a stored entry, get returns the stored value iff
\* now - insertedAt <= ttl, and returns None otherwise; at
\* now - insertedAt = ttl the value is still returned.
C3_VisibleIffWithinTtl ==
    [][\A key \in CacheKeys :
        (CacheGet(key) /\ stored(key))
        => /\ (hist'[2].ret = data_cache[key].data) <=> (age(key) <= TTL)
           /\ (hist'[2].ret = None) <=> (age(key) > TTL)]_vars

\* a get returned an entry that was exactly ttl seconds old
C3_Witness ==
    /\ hist[2].op = "get"
    /\ stored(hist[2].key)
    /\ age(hist[2].key) = TTL
    /\ is_hit(printed, hist[2].key)
    /\ hist[2].ret = data_cache[hist[2].key].data

\* C4: a get(key) that directly follows set(key, value), with no other call
\* and no clock advance between them, returns value.
C4_GetAfterSet ==
    (/\ hist[1].op = "set"
     /\ hist[2].op = "get"
     /\ hist[2].key = hist[1].key)
    => hist[2].ret = hist[1].val

\* set(key, value) then get(key) happened, at a time later than the first
\* reading of the clock
C4_Witness ==
    /\ hist[1].op = "set"
    /\ hist[2].op = "get"
    /\ hist[2].key = hist[1].key
    /\ hist[2].ret = hist[1].val
    /\ now > T0

\* C5: get of a key that was never an argument of set returns None and
\* leaves the cache as it was.
C5_NeverSetIsAbsent ==
    [][\A key \in CacheKeys :
        (CacheGet(key) /\ key \notin everSet)
        => /\ hist'[2].ret = None
           /\ data_cache' = data_cache]_vars

\* a key never set was read while another key was stored
C5_Witness ==
    /\ hist[2].op = "get"
    /\ hist[2].key \notin everSet
    /\ hist[2].ret = None
    /\ data_cache # <<>>

\* C6: get of a key whose entry is expired (now - insertedAt > ttl) returns
\* None and removes that entry, and only that entry, from the map.
C6_ExpiredIsDeleted ==
    [][\A key \in CacheKeys :
        (CacheGet(key) /\ stored(key) /\ age(key) > TTL)
        => /\ hist'[2].ret = None
           /\ key \notin DOMAIN data_cache'
           /\ DOMAIN data_cache' = DOMAIN data_cache \ {key}
           /\ \A k \in DOMAIN data_cache' : data_cache'[k] = data_cache[k]]_vars

\* a get found its entry expired and the key is gone
C6_Witness ==
    /\ hist[2].op = "get"
    /\ is_expiry(printed, hist[2].key)
    /\ hist[2].ret = None
    /\ ~stored(hist[2].key)
    /\ hist[2].key \in everSet

\* C7: a get that hits (entry present, now - insertedAt <= ttl) leaves the
\* whole map as it was: the keys, the values and the timestamps, that of the
\* key read included.
C7_HitChangesNothing ==
    [][\A key \in CacheKeys :
        (CacheGet(key) /\ stored(key) /\ age(key) <= TTL)
        => data_cache' = data_cache]_vars

\* a get hit an entry stored at an earlier time, and the entry still carries
\* that time
C7_Witness ==
    /\ hist[2].op = "get"
    /\ is_hit(printed, hist[2].key)
    /\ stored(hist[2].key)
    /\ age(hist[2].key) > 0

\* C8: set(key, value) is always possible and leaves the entry of key equal
\* to (value, the clock's reading), whether or not key had an entry, expired
\* or not; the entries of all other keys are as before.
C8_SetOverwrites ==
    /\ [](\A key \in CacheKeys, data \in Values : ENABLED CacheSet(key, data))
    /\ [][\A key \in CacheKeys, data \in Values :
            CacheSet(key, data)
            => /\ DOMAIN data_cache' = DOMAIN data_cache \cup {key}
               /\ data_cache'[key] = [data |-> data, timestamp |-> now]
               /\ \A k \in DOMAIN data_cache \ {key} :
                    data_cache'[k] = data_cache[k]]_vars

\* a set replaced the value stored by the set before it, while another key
\* was stored
C8_Witness ==
    /\ hist[2].op = "set"
    /\ stored(hist[2].key)
    /\ data_cache[hist[2].key] = [data |-> hist[2].val, timestamp |-> now]
    /\ hist[1].op = "set"
    /\ hist[1].key = hist[2].key
    /\ hist[1].val # hist[2].val
    /\ \E k \in DOMAIN data_cache : k # hist[2].key

\* a record that TickerResponse accepts: the six fields, the numbers present
is_TickerResponse(data) ==
    /\ DOMAIN data = {"symbol", "last", "bid", "ask", "timestamp", "info"}
    /\ data.symbol \in {upper(symbol) : symbol \in Symbols}
    /\ \A f \in {"last", "bid", "ask", "timestamp"} : data[f] > 0
    /\ data.info = "raw"

\* the outcomes of fetch_ticker(arg) after which no TickerResponse exists
Failures(arg) ==
    {raises(BadSymbol(arg)), raises(RateLimit), raises(TimedOut),
     raises(NoMarket), raises(MockExhausted),
     returns(payload_no_bid(arg, Prices[1])),
     returns(payload_none_bid(arg, Prices[1]))}

\* C9: a ticker request whose fetch fails, or whose result cannot be mapped
\* to a TickerResponse, performs no cache set; every cache entry holds a
\* complete TickerResponse, and an entry is written only by a request that
\* is answered 200 with that record.
C9_OnlyMappedRecordsStored ==
    /\ [](\A key \in DOMAIN data_cache : is_TickerResponse(data_cache[key].data))
    /\ [][\A r \in Reqs :
            (/\ req[r].pc = "awaiting"
             /\ \E outcome \in Failures(upper(req[r].symbol)) :
                    ticker_resume(r, outcome))
            => /\ data_cache' = data_cache
               /\ everSet' = everSet
               /\ resp'.status # 200]_vars
    /\ [][\A key \in DOMAIN data_cache' :
            (~stored(key) \/ data_cache'[key] # data_cache[key])
            => /\ \E r \in Reqs : /\ req[r].pc = "awaiting"
                                  /\ req'[r].pc = "idle"
                                  /\ cache_key(req[r].symbol) = key
               /\ resp'.status = 200
               /\ resp'.body = data_cache'[key].data]_vars

\* a request failed on a payload without 'bid' while the cache held an entry
\* for its key, which is still there
C9_Witness ==
    /\ resp.status = 500
    /\ resp.detail = <<"An", "unexpected", "error", "occurred", ":", "bid">>
    /\ stored(cache_key(resp.symbol))
    /\ \A r \in Reqs : req[r].pc = "idle"

\* C10: when fetch_ticker raises BadSymbol('The symbol <symbol> is not
\* supported'), the ticker handler answers 404 with a detail that contains
\* 'Symbol <symbol> not found'.
C10_BadSymbolIs404 ==
    [][\A r \in Reqs :
        (/\ req[r].pc = "awaiting"
         /\ ticker_resume(r, raises(BadSymbol(upper(req[r].symbol)))))
        => /\ resp'.status = 404
           /\ contains(resp'.detail,
                       <<"Symbol", req[r].symbol, "not", "found">>)]_vars

\* C11: two ticker requests whose symbols differ only in letter case use the
\* same cache entry: a request for a symbol, made while the entry stored for
\* a spelling of the same upper-case symbol is not expired, is answered with
\* that entry's record without an upstream call.
C11_CaseInsensitiveKey ==
    [][\A r \in Reqs, first \in Symbols, second \in Symbols :
        (/\ upper(first) = upper(second)
         /\ stored(cache_key(first))
         /\ age(cache_key(first)) <= TTL
         /\ get_ticker_start(r, second))
        => /\ cache_key(second) = cache_key(first)
           /\ fetch_count' = fetch_count
           /\ resp' = [symbol |-> second, status |-> 200,
                       body |-> data_cache[cache_key(first)].data]]_vars

\* C12: an OHLCV request with limit > 1000 is answered 400 'Limit must not
\* exceed 1000 for performance.', one with limit <= 1000 and a timeframe
\* outside {1m, 5m, 15m, 1h, 4h, 1d} is answered 400 'Invalid timeframe.
\* Supported: 1m, 5m, 15m, 1h, 4h, 1d.', and neither calls fetch_ohlcv; every
\* other request passes validation and goes on to call fetch_ohlcv.
C12_ValidationBeforeFetch ==
    [][\A symbol \in Symbols, timeframe \in RequestTimeframes,
          limit \in RequestLimits :
        get_ohlcv_start(1, symbol, timeframe, limit)
        => IF limit > 1000
           THEN /\ resp' = [symbol |-> symbol, status |-> 400,
                            detail |-> <<"Limit", "must", "not", "exceed",
                                         "1000", "for", "performance.">>]
                /\ ohlcv_count' = ohlcv_count
                /\ req' = req
           ELSE IF timeframe \notin {"1m", "5m", "15m", "1h", "4h", "1d"}
           THEN /\ resp' = [symbol |-> symbol, status |-> 400,
                            detail |-> <<"Invalid", "timeframe.",
                                         "Supported:", "1m,", "5m,", "15m,",
                                         "1h,", "4h,", "1d.">>]
                /\ ohlcv_count' = ohlcv_count
                /\ req' = req
           ELSE /\ req'[1].pc = "awaiting_ohlcv"
                /\ ohlcv_count' = ohlcv_count + 1
                /\ resp' = resp]_vars

\* a request over the limit was refused after an earlier one had reached the
\* exchange: the count of calls is still that one
C12_Witness ==
    /\ resp.status = 400
    /\ contains(resp.detail, <<"Limit", "must", "not", "exceed", "1000">>)
    /\ req[1].pc = "idle"
    /\ ohlcv_count = 1

\* C13: every OHLCV request that passes validation calls fetch_ohlcv once,
\* whatever was requested before, and no step of the OHLCV handler, at the
\* call, at a refusal, at a success or at a failure, reads or changes the
\* cache.
C13_OhlcvNeverCached ==
    [][\A r \in Reqs :
        /\ \A symbol \in ServerSymbols, timeframe \in ServerTimeframes,
              limit \in ServerLimits :
              get_ohlcv_start(r, symbol, timeframe, limit)
              => /\ data_cache' = data_cache
                 /\ printed' = printed
                 /\ everSet' = everSet
                 /\ fetch_count' = fetch_count
                 /\ (limit <= 1000 /\ timeframe \in Timeframes)
                        => /\ ohlcv_count' = ohlcv_count + 1
                           /\ req'[r].pc = "awaiting_ohlcv"
        /\ (req[r].pc = "awaiting_ohlcv" /\ req'[r].pc = "idle")
              => /\ data_cache' = data_cache
                 /\ printed' = printed
                 /\ everSet' = everSet
                 /\ fetch_count' = fetch_count
                 /\ ohlcv_count' = ohlcv_count]_vars

\* with a ticker record in the cache, an OHLCV request was answered 200 and
\* the same request, sent again, is waiting for its own call to fetch_ohlcv
C13_Witness ==
    /\ data_cache # <<>>
    /\ resp.status = 200
    /\ "data" \in DOMAIN resp.body
    /\ ohlcv_count = 2
    /\ \E r \in Reqs : /\ req[r].pc = "awaiting_ohlcv"
                       /\ req[r].symbol = resp.symbol
                       /\ req[r].timeframe = resp.body.timeframe

\* C14: when fetch_ohlcv returns a sequence of 6-element bars, the response
\* is 200, its data has as many bars in the same order, bar i holding
\* elements 0..5 of raw bar i as timestamp, open, high, low, close, volume,
\* and its symbol is the request's symbol in upper case.
C14_BarsMappedInOrder ==
    [][\A bars \in BarSeqs :
        (/\ req[1].pc = "awaiting_ohlcv"
         /\ get_ohlcv_resume(1, returns_bars(bars)))
        => /\ resp'.status = 200
           /\ resp'.body.symbol = upper(req[1].symbol)
           /\ resp'.body.timeframe = req[1].timeframe
           /\ Len(resp'.body.data) = Len(bars)
           /\ \A i \in 1..Len(bars) :
                 /\ resp'.body.data[i].timestamp = bars[i][1]
                 /\ resp'.body.data[i].open = bars[i][2]
                 /\ resp'.body.data[i].high = bars[i][3]
                 /\ resp'.body.data[i].low = bars[i][4]
                 /\ resp'.body.data[i].close = bars[i][5]
                 /\ resp'.body.data[i].volume = bars[i][6]]_vars

\* a request for eth/usdt was answered with the two bars newest first, as
\* the exchange returned them
C14_Witness ==
    /\ resp.status = 200
    /\ resp.symbol = "eth/usdt"
    /\ resp.body.symbol = "ETH/USDT"
    /\ Len(resp.body.data) = 2
    /\ resp.body.data[1].timestamp = Bar2[1]
    /\ resp.body.data[2].timestamp = Bar1[1]

\* the outcomes of a call that are unexpected errors: an exception that is
\* no ExchangeError and names no missing symbol, a ticker payload without
\* 'bid' or with bid None, a bar that is too short or holds None
UnexpectedTicker(arg) ==
    {raises(TimedOut), returns(payload_no_bid(arg, Prices[1])),
     returns(payload_none_bid(arg, Prices[1]))}
UnexpectedOhlcv ==
    {raises(TimedOut), returns_bars(<<NoneBar>>),
     returns_bars(<<Bar1, ShortBar>>)}

\* the request of r got an error response and nothing else happened: no
\* further call, no cache change, r is done
ends_in_error(r, symbol, status, words) ==
    /\ resp'.symbol = symbol
    /\ resp'.status = status
    /\ contains(resp'.detail, words)
    /\ req'[r] = Idle
    /\ fetch_count' = fetch_count
    /\ ohlcv_count' = ohlcv_count
    /\ data_cache' = data_cache

\* C15: when fetch_ticker or fetch_ohlcv raises an ExchangeError that is not
\* a bad-symbol failure, the response is 500 and its detail holds the
\* upstream message; when the call or the mapping of its result fails with
\* any other unexpected exception, a ticker payload without a field
\* included, the response is 500 'An unexpected error occurred'.  Either way
\* the request ends there: no second call, no answer from the cache.
C15_UpstreamErrorsAre500 ==
    [][\A r \in Reqs :
        /\ (req[r].pc = "awaiting" /\ ticker_resume(r, raises(RateLimit)))
              => ends_in_error(r, req[r].symbol, 500,
                               <<"Exchange", "error">>)
                 /\ contains(resp'.detail, RateLimit.msg)
        /\ (req[r].pc = "awaiting_ohlcv"
               /\ ohlcv_resume(r, raises(RateLimit)))
              => ends_in_error(r, req[r].symbol, 500,
                               <<"Exchange", "error">>)
                 /\ contains(resp'.detail, RateLimit.msg)
        /\ \A outcome \in UnexpectedTicker(upper(req[r].symbol)) :
              (req[r].pc = "awaiting" /\ ticker_resume(r, outcome))
              => ends_in_error(r, req[r].symbol, 500,
                               <<"An", "unexpected", "error", "occurred">>)
        /\ \A outcome \in UnexpectedOhlcv :
              (req[r].pc = "awaiting_ohlcv" /\ ohlcv_resume(r, outcome))
              => ends_in_error(r, req[r].symbol, 500,
                               <<"An", "unexpected", "error", "occurred">>)
      ]_vars

\* an OHLCV request was refused by the exchange for its rate limit: it got
\* the 500 with that message after its one call
C15_Witness ==
    /\ resp.status = 500
    /\ resp.detail = <<"Exchange", "error", "while", "fetching", "OHLCV",
                       "for", resp.symbol, ":", "rate", "limit", "exceeded">>
    /\ ohlcv_count = 1
    /\ fetch_count = 0
    /\ \A r \in Reqs : req[r].pc = "idle"

\* C16: a request calls the exchange at most once: the count of calls rises
\* only by one, in the step in which one idle request starts to wait for
\* its call; the step that ends the wait makes no call and ends the request
\* with a response, which is an error response when the call failed.
C16_NoRetries ==
    [][/\ fetch_count' + ohlcv_count' \in
              {fetch_count + ohlcv_count, fetch_count + ohlcv_count + 1}
       /\ fetch_count' >= fetch_count
       /\ ohlcv_count' >= ohlcv_count
       /\ fetch_count' # fetch_count
             => \E r \in Reqs :
                   /\ req[r].pc = "idle"
                   /\ req'[r].pc = "awaiting"
                   /\ \A q \in Reqs \ {r} : req'[q] = req[q]
       /\ ohlcv_count' # ohlcv_count
             => \E r \in Reqs :
                   /\ req[r].pc = "idle"
                   /\ req'[r].pc = "awaiting_ohlcv"
                   /\ \A q \in Reqs \ {r} : req'[q] = req[q]
       /\ \A r \in Reqs :
             (req[r].pc # "idle" /\ req'[r] # req[r])
             => /\ req'[r] = Idle
                /\ fetch_count' = fetch_count
                /\ ohlcv_count' = ohlcv_count
                /\ resp'.symbol = req[r].symbol
                /\ resp'.status \in {200, 404, 500}
       /\ \A r \in Reqs :
             (\/ /\ req[r].pc = "awaiting"
                 /\ \E outcome \in Failures(upper(req[r].symbol)) :
                       ticker_resume(r, outcome)
              \/ /\ req[r].pc = "awaiting_ohlcv"
                 /\ \E outcome \in UnexpectedOhlcv
                                    \cup Errors(upper(req[r].symbol)) :
                       ohlcv_resume(r, outcome))
             => /\ req'[r] = Idle
                /\ resp'.status \in {404, 500}
                /\ fetch_count' = fetch_count
                /\ ohlcv_count' = ohlcv_count]_vars

\* a ticker request and an OHLCV request made one call each; the ticker
\* call failed, since nothing is stored, the last response is an error and
\* nobody waits for a second call
C16_Witness ==
    /\ fetch_count = 1
    /\ ohlcv_count = 1
    /\ resp.status = 500
    /\ \A r \in Reqs : req[r].pc = "idle"
    /\ data_cache = <<>>

\* C17: a key leaves the map only in a get of that key that finds its entry
\* expired; a clock advance, a set and a get of another key remove nothing,
\* so an entry that is not read again stays in the map after its TTL has
\* passed.
C17_RemovedOnlyByOwnGet ==
    [][/\ \A key \in DOMAIN data_cache :
             key \notin DOMAIN data_cache'
             => /\ hist'[2].op = "get"
                /\ hist'[2].key = key
                /\ age(key) > TTL
       /\ CacheTick => data_cache' = data_cache
       /\ \A key \in CacheKeys :
             /\ CacheGet(key)
                   => DOMAIN data_cache \ {key} \subseteq DOMAIN data_cache'
             /\ \A data \in Values :
                   CacheSet(key, data)
                   => DOMAIN data_cache \subseteq DOMAIN data_cache']_vars

\* an entry whose TTL has passed is still in the map after a set and a get of
\* another key
C17_Witness ==
    \E key \in DOMAIN data_cache :
        /\ age(key) > TTL
        /\ hist[1].op = "set"
        /\ hist[1].key # key
        /\ hist[2].op = "get"
        /\ hist[2].key # key

\* C18: with the await of fetch_ticker as the only point where a request
\* is suspended, every step changes the cache by one whole get or one whole
\* set, under every interleaving of the requests, and in every reachable
\* state every entry is a complete pair of a TickerResponse and the time of
\* its set, the record being the one fetched for the upper-case symbol of
\* the entry's key.
C18_EntriesAreWhole ==
    /\ [](\A key \in DOMAIN data_cache :
            /\ key \in {cache_key(symbol) : symbol \in Symbols}
            /\ key \in everSet
            /\ DOMAIN data_cache[key] = {"data", "timestamp"}
            /\ is_TickerResponse(data_cache[key].data)
            /\ data_cache[key].data.symbol = upper(key[2])
            /\ data_cache[key].timestamp \in T0..now)
    /\ [][\/ data_cache' = data_cache
          \/ \E key \in DOMAIN data_cache :
                data_cache' = get_cache(data_cache, now, key)
          \/ \E key \in DOMAIN data_cache' :
                data_cache' = set_cache(data_cache, now, key,
                                        data_cache'[key].data)]_vars

\* the two spellings of one symbol each have their entry, stored at
\* different times with different prices, while nobody waits
C18_Witness ==
    /\ stored(cache_key("ETH/USDT"))
    /\ stored(cache_key("eth/usdt"))
    /\ data_cache[cache_key("ETH/USDT")].timestamp
          < data_cache[cache_key("eth/usdt")].timestamp
    /\ data_cache[cache_key("ETH/USDT")].data.last
          # data_cache[cache_key("eth/usdt")].data.last
    /\ \A r \in Reqs : req[r].pc = "idle"

\* C19: a ticker request that misses calls fetch_ticker itself, also while
\* other requests are waiting for a call made for the same key; each request
\* whose call succeeds is answered with the record of its own call and
\* stores it with the time of the set, so that after all of them the entry
\* is the record of the request whose set ran last.
C19_MissesNotCoalesced ==
    [][\A r \in Reqs :
        /\ \A symbol \in Symbols :
              (/\ get_ticker_start(r, symbol)
               /\ ~(stored(cache_key(symbol))
                    /\ age(cache_key(symbol)) <= TTL))
              => /\ fetch_count' = fetch_count + 1
                 /\ req'[r].pc = "awaiting"
                 /\ req'[r].symbol = symbol
        /\ \A i \in 1..Len(Prices) :
              (/\ req[r].pc = "awaiting"
               /\ ticker_resume(r, returns(ticker_payload(
                                      upper(req[r].symbol), Prices[i]))))
              => /\ resp'.status = 200
                 /\ resp'.symbol = req[r].symbol
                 /\ resp'.body.last = Prices[i]
                 /\ data_cache'[cache_key(req[r].symbol)]
                       = [data |-> resp'.body, timestamp |-> now]]_vars

\* two requests missed the same key before either stored: both calls were
\* made, one request has its answer and its record is stored, at a time
\* after its call was made, while the other still waits for its own call
C19_Witness ==
    \E r \in Reqs :
        /\ req[r].pc = "awaiting"
        /\ resp.status = 200
        /\ resp.symbol = req[r].symbol
        /\ fetch_count = 2
        /\ everSet = {cache_key(resp.symbol)}
        /\ data_cache[cache_key(resp.symbol)].data = resp.body
        /\ data_cache[cache_key(resp.symbol)].timestamp = now
        /\ now = T0 + 1

====
